---------------------------- MODULE Spec2Model ----------------------------
(***************************************************************************)
(* The PromQL function library of prometheus-http-query                    *)
(* (src/functions.rs).  Every function takes a vector by value, formats    *)
(* its query text into a fixed template and returns a new vector; three    *)
(* functions validate their arguments first and may return an error.       *)
(*                                                                         *)
(* Text is modelled character by character: a String is a sequence of      *)
(* one-character strings, so quoting and parenthesisation can be examined. *)
(* An f64 is a record: k = "fin" with m the value in hundredths, k = "inf" *)
(* with m the sign, or k = "NaN".                                          *)
(***************************************************************************)
EXTENDS Integers, Sequences, FiniteSets, TLC

VARIABLES
    vector,   \* the expression the caller owns: [type, query], or Moved
    input,    \* the vector handed to the last call
    call,     \* the last call: function name and arguments
    result,   \* the last call's outcome: Ok, or Err with kind and message
    history,  \* the texts of the vectors the caller handed to its calls, in order
    heap,     \* the contents of the String buffers of the process
    live,     \* the buffers that are allocated
    callers   \* several callers of one process: what each owns and has called

vars == <<vector, input, call, result, history, heap, live, callers>>

(***************************************************************************)
(* Bounds of the model.                                                    *)
(***************************************************************************)
\* A further call is made only on a query of at most this many characters.
MaxQueryLen == 18
\* Longest list of source labels handed to label_join.
MaxSrcLabels == 2

(***************************************************************************)
(* Vectors (tuple structs wrapping one owned String) and errors.           *)
(***************************************************************************)
InstantVector(query) == [type |-> "InstantVector", query |-> query]

RangeVector(query) == [type |-> "RangeVector", query |-> query]

\* The caller's binding after its vector was moved into a call that failed.
Moved == [type |-> "Moved", query |-> <<>>]

Ok(v) == [ok |-> TRUE, value |-> v, error |-> "", message |-> <<>>]

Err(kind, msg) == [ok |-> FALSE, value |-> Moved, error |-> kind, message |-> msg]

(***************************************************************************)
(* f64 values, their comparisons and their Display formatting.             *)
(***************************************************************************)
Fin(m) == [k |-> "fin", m |-> m]

NaN == [k |-> "NaN", m |-> 0]

Inf == [k |-> "inf", m |-> 1]

NegInf == [k |-> "inf", m |-> -1]

\* Position of a non-NaN value on the extended real line, in hundredths.
Magnitude(x) == IF x.k = "inf" THEN x.m * 1000000 ELSE x.m

\* x <= y and x >= y on f64: every comparison with NaN is false.
f64_le(x, y) == x.k # "NaN" /\ y.k # "NaN" /\ Magnitude(x) <= Magnitude(y)

f64_ge(x, y) == x.k # "NaN" /\ y.k # "NaN" /\ Magnitude(x) >= Magnitude(y)

DigitChar(d) == <<"0", "1", "2", "3", "4", "5", "6", "7", "8", "9">>[d + 1]

RECURSIVE Decimal(_)
Decimal(n) == IF n < 10 THEN <<DigitChar(n)>>
              ELSE Decimal(n \div 10) \o <<DigitChar(n % 10)>>

\* Faulty variant: fixed precision of one fractional digit, as {:.1} formats.
fmt_f64_one_decimal(x) ==
    IF x.k = "NaN" THEN <<"N", "a", "N">>
    ELSE IF x.k = "inf" THEN (IF x.m < 0 THEN <<"-", "i", "n", "f">> ELSE <<"i", "n", "f">>)
    ELSE LET a    == IF x.m < 0 THEN -x.m ELSE x.m
             sign == IF x.m < 0 THEN <<"-">> ELSE <<>>
         IN  sign \o Decimal(a \div 100) \o <<".", DigitChar((a % 100) \div 10)>>

\* The `{}` formatting of an f64: shortest decimal text that denotes the value,
\* no exponent, no fractional part for an integral value.
fmt_f64(x) ==
    IF x.k = "NaN" THEN <<"N", "a", "N">>
    ELSE IF x.k = "inf" THEN (IF x.m < 0 THEN <<"-", "i", "n", "f">> ELSE <<"i", "n", "f">>)
    ELSE LET a    == IF x.m < 0 THEN -x.m ELSE x.m
             sign == IF x.m < 0 THEN <<"-">> ELSE <<>>
             frac == IF a % 100 = 0 THEN <<>>
                     ELSE IF a % 10 = 0 THEN <<".", DigitChar((a % 100) \div 10)>>
                     ELSE <<".", DigitChar((a % 100) \div 10), DigitChar(a % 10)>>
         IN  sign \o Decimal(a \div 100) \o frac

(***************************************************************************)
(* Inputs of the calls.                                                    *)
(***************************************************************************)
\* -inf, -0.1, 0.0, 0.5, 0.75, 0.9, 1.0, 1.1, 300.0, inf and NaN
F64s == {NegInf, Fin(-10), Fin(0), Fin(50), Fin(75), Fin(90), Fin(100), Fin(110),
         Fin(30000), Inf, NaN}

\* the empty string, l, a double quote, a backslash
Strs == {<<>>, <<"l">>, <<"\"">>, <<"\\">>}

RECURSIVE Lists(_)
Lists(n) == IF n = 0 THEN {<<>>}
            ELSE LET shorter == Lists(n - 1)
                 IN  shorter \cup {Append(l, s) : l \in {x \in shorter : Len(x) = n - 1}, s \in Strs}

SrcLabelLists == Lists(MaxSrcLabels)

\* The instant vector m{l="v"} and the range vector m{l="v"}[5m]: the texts a
\* Selector with one metric name and one label matcher converts into.
StartVectors == {InstantVector(<<"m", "{", "l", "=", "\"", "v", "\"", "}">>), RangeVector(<<"m", "{", "l", "=", "\"", "v", "\"", "}", "[", "5", "m", "]">>)}

(***************************************************************************)
(* The macro create_function! and the functions it generates.              *)
(***************************************************************************)
\* stringify!($func_name): the identifier as text
stringify ==
    [ abs |-> <<"a", "b", "s">>,
      absent |-> <<"a", "b", "s", "e", "n", "t">>,
      absent_over_time |-> <<"a", "b", "s", "e", "n", "t", "_", "o", "v", "e", "r", "_", "t", "i", "m", "e">>,
      ceil |-> <<"c", "e", "i", "l">>,
      changes |-> <<"c", "h", "a", "n", "g", "e", "s">>,
      day_of_month |-> <<"d", "a", "y", "_", "o", "f", "_", "m", "o", "n", "t", "h">>,
      day_of_week |-> <<"d", "a", "y", "_", "o", "f", "_", "w", "e", "e", "k">>,
      days_in_month |-> <<"d", "a", "y", "s", "_", "i", "n", "_", "m", "o", "n", "t", "h">>,
      delta |-> <<"d", "e", "l", "t", "a">>,
      deriv |-> <<"d", "e", "r", "i", "v">>,
      exp |-> <<"e", "x", "p">>,
      floor |-> <<"f", "l", "o", "o", "r">>,
      hour |-> <<"h", "o", "u", "r">>,
      idelta |-> <<"i", "d", "e", "l", "t", "a">>,
      increase |-> <<"i", "n", "c", "r", "e", "a", "s", "e">>,
      irate |-> <<"i", "r", "a", "t", "e">>,
      ln |-> <<"l", "n">>,
      log2 |-> <<"l", "o", "g", "2">>,
      log10 |-> <<"l", "o", "g", "1", "0">>,
      minute |-> <<"m", "i", "n", "u", "t", "e">>,
      month |-> <<"m", "o", "n", "t", "h">>,
      rate |-> <<"r", "a", "t", "e">>,
      resets |-> <<"r", "e", "s", "e", "t", "s">>,
      scalar |-> <<"s", "c", "a", "l", "a", "r">>,
      sgn |-> <<"s", "g", "n">>,
      sort |-> <<"s", "o", "r", "t">>,
      sort_desc |-> <<"s", "o", "r", "t", "_", "d", "e", "s", "c">>,
      timestamp |-> <<"t", "i", "m", "e", "s", "t", "a", "m", "p">>,
      year |-> <<"y", "e", "a", "r">>,
      avg_over_time |-> <<"a", "v", "g", "_", "o", "v", "e", "r", "_", "t", "i", "m", "e">>,
      min_over_time |-> <<"m", "i", "n", "_", "o", "v", "e", "r", "_", "t", "i", "m", "e">>,
      max_over_time |-> <<"m", "a", "x", "_", "o", "v", "e", "r", "_", "t", "i", "m", "e">>,
      sum_over_time |-> <<"s", "u", "m", "_", "o", "v", "e", "r", "_", "t", "i", "m", "e">>,
      count_over_time |-> <<"c", "o", "u", "n", "t", "_", "o", "v", "e", "r", "_", "t", "i", "m", "e">>,
      stddev_over_time |-> <<"s", "t", "d", "d", "e", "v", "_", "o", "v", "e", "r", "_", "t", "i", "m", "e">>,
      stdvar_over_time |-> <<"s", "t", "d", "v", "a", "r", "_", "o", "v", "e", "r", "_", "t", "i", "m", "e">>,
      last_over_time |-> <<"l", "a", "s", "t", "_", "o", "v", "e", "r", "_", "t", "i", "m", "e">>,
      present_over_time |-> <<"p", "r", "e", "s", "e", "n", "t", "_", "o", "v", "e", "r", "_", "t", "i", "m", "e">> ]

\* One entry per create_function! invocation: => func_name, source_type, result_type
Functions ==
    { [func_name |-> "abs", source_type |-> "InstantVector", result_type |-> "InstantVector"],
      [func_name |-> "absent", source_type |-> "InstantVector", result_type |-> "InstantVector"],
      [func_name |-> "absent_over_time", source_type |-> "RangeVector", result_type |-> "InstantVector"],
      [func_name |-> "ceil", source_type |-> "InstantVector", result_type |-> "InstantVector"],
      [func_name |-> "changes", source_type |-> "RangeVector", result_type |-> "InstantVector"],
      [func_name |-> "day_of_month", source_type |-> "InstantVector", result_type |-> "InstantVector"],
      [func_name |-> "day_of_week", source_type |-> "InstantVector", result_type |-> "InstantVector"],
      [func_name |-> "days_in_month", source_type |-> "InstantVector", result_type |-> "InstantVector"],
      [func_name |-> "delta", source_type |-> "RangeVector", result_type |-> "InstantVector"],
      [func_name |-> "deriv", source_type |-> "RangeVector", result_type |-> "InstantVector"],
      [func_name |-> "exp", source_type |-> "InstantVector", result_type |-> "InstantVector"],
      [func_name |-> "floor", source_type |-> "InstantVector", result_type |-> "InstantVector"],
      [func_name |-> "hour", source_type |-> "InstantVector", result_type |-> "InstantVector"],
      [func_name |-> "idelta", source_type |-> "RangeVector", result_type |-> "InstantVector"],
      [func_name |-> "increase", source_type |-> "RangeVector", result_type |-> "InstantVector"],
      [func_name |-> "irate", source_type |-> "RangeVector", result_type |-> "InstantVector"],
      [func_name |-> "ln", source_type |-> "InstantVector", result_type |-> "InstantVector"],
      [func_name |-> "log2", source_type |-> "InstantVector", result_type |-> "InstantVector"],
      [func_name |-> "log10", source_type |-> "InstantVector", result_type |-> "InstantVector"],
      [func_name |-> "minute", source_type |-> "InstantVector", result_type |-> "InstantVector"],
      [func_name |-> "month", source_type |-> "InstantVector", result_type |-> "InstantVector"],
      [func_name |-> "rate", source_type |-> "RangeVector", result_type |-> "InstantVector"],
      [func_name |-> "resets", source_type |-> "RangeVector", result_type |-> "InstantVector"],
      [func_name |-> "scalar", source_type |-> "InstantVector", result_type |-> "InstantVector"],
      [func_name |-> "sgn", source_type |-> "InstantVector", result_type |-> "InstantVector"],
      [func_name |-> "sort", source_type |-> "InstantVector", result_type |-> "InstantVector"],
      [func_name |-> "sort_desc", source_type |-> "InstantVector", result_type |-> "InstantVector"],
      [func_name |-> "timestamp", source_type |-> "InstantVector", result_type |-> "InstantVector"],
      [func_name |-> "year", source_type |-> "InstantVector", result_type |-> "InstantVector"],
      [func_name |-> "avg_over_time", source_type |-> "RangeVector", result_type |-> "InstantVector"],
      [func_name |-> "min_over_time", source_type |-> "RangeVector", result_type |-> "InstantVector"],
      [func_name |-> "max_over_time", source_type |-> "RangeVector", result_type |-> "InstantVector"],
      [func_name |-> "sum_over_time", source_type |-> "RangeVector", result_type |-> "InstantVector"],
      [func_name |-> "count_over_time", source_type |-> "RangeVector", result_type |-> "InstantVector"],
      [func_name |-> "stddev_over_time", source_type |-> "RangeVector", result_type |-> "InstantVector"],
      [func_name |-> "stdvar_over_time", source_type |-> "RangeVector", result_type |-> "InstantVector"],
      [func_name |-> "last_over_time", source_type |-> "RangeVector", result_type |-> "InstantVector"],
      [func_name |-> "present_over_time", source_type |-> "RangeVector", result_type |-> "InstantVector"] }

\* Faulty variant: the result keeps the type of the argument.
create_function_keeps_type(func_name, source_type, result_type, v) ==
    LET query == v.query
        new   == stringify[func_name] \o <<"(">> \o query \o <<")">>
    IN  [type |-> source_type, query |-> new]

\* Faulty variant: the two arguments of format! change places.
create_function_swapped(func_name, source_type, result_type, v) ==
    LET query == v.query
        new   == query \o <<"(">> \o stringify[func_name] \o <<")">>
    IN  [type |-> result_type, query |-> new]

create_function(func_name, source_type, result_type, v) ==
    LET query == v.query
        new   == stringify[func_name] \o <<"(">> \o query \o <<")">>
    IN  [type |-> result_type, query |-> new]

(***************************************************************************)
(* The hand-written functions.                                             *)
(***************************************************************************)
\* Faulty variant: the two bounds change places.
clamp_swapped(v, min, max) ==
    LET query == v.query
        new   == <<"c", "l", "a", "m", "p", "(">> \o query \o <<",", " ">> \o fmt_f64(max) \o <<",", " ">> \o fmt_f64(min) \o <<")">>
    IN  InstantVector(new)

clamp(v, min, max) ==
    LET query == v.query
        new   == <<"c", "l", "a", "m", "p", "(">> \o query \o <<",", " ">> \o fmt_f64(min) \o <<",", " ">> \o fmt_f64(max) \o <<")">>
    IN  InstantVector(new)

clamp_max(v, max) ==
    LET query == v.query
        new   == <<"c", "l", "a", "m", "p", "_", "m", "a", "x", "(">> \o query \o <<",", " ">> \o fmt_f64(max) \o <<")">>
    IN  InstantVector(new)

clamp_min(v, min) ==
    LET query == v.query
        new   == <<"c", "l", "a", "m", "p", "_", "m", "i", "n", "(">> \o query \o <<",", " ">> \o fmt_f64(min) \o <<")">>
    IN  InstantVector(new)

\* Faulty variant: the inner text is written before the quantile.
histogram_quantile_inner_first(quantile, v) ==
    LET query == v.query
        new   == <<"h", "i", "s", "t", "o", "g", "r", "a", "m", "_", "q", "u", "a", "n", "t", "i", "l", "e", "(">> \o query \o <<",", " ">> \o fmt_f64(quantile) \o <<")">>
    IN  InstantVector(new)

histogram_quantile(quantile, v) ==
    LET query == v.query
        new   == <<"h", "i", "s", "t", "o", "g", "r", "a", "m", "_", "q", "u", "a", "n", "t", "i", "l", "e", "(">> \o fmt_f64(quantile) \o <<",", " ">> \o query \o <<")">>
    IN  InstantVector(new)

\* smoothing factors in holt_winters() must be between 0.0 (excl.) and 1.0 (excl.)
HoltWintersMessage ==
    <<"s", "m", "o", "o", "t", "h", "i", "n", "g", " ", "f", "a", "c", "t", "o", "r", "s", " ", "i", "n", " ", "h", "o", "l", "t", "_", "w", "i", "n", "t", "e", "r", "s", "(", ")", " ", "m", "u", "s", "t", " ", "b", "e", " ", "b", "e", "t", "w", "e", "e", "n", " ", "0", ".", "0", " ", "(", "e", "x", "c", "l", ".", ")", " ", "a", "n", "d", " ", "1", ".", "0", " ", "(", "e", "x", "c", "l", ".", ")">>

f64_lt(x, y) == x.k # "NaN" /\ y.k # "NaN" /\ Magnitude(x) < Magnitude(y)

\* Faulty variant: the interval is closed, 0.0 and 1.0 are accepted.
holt_winters_closed(v, sf, tf) ==
    IF f64_lt(sf, Fin(0)) \/ f64_lt(tf, Fin(0)) \/ f64_lt(Fin(100), sf) \/ f64_lt(Fin(100), tf)
    THEN Err("InvalidFunctionArgument", HoltWintersMessage)
    ELSE LET query == v.query
             new   == <<"h", "o", "l", "t", "_", "w", "i", "n", "t", "e", "r", "s", "(">> \o query \o <<",", " ">> \o fmt_f64(sf) \o <<",", " ">> \o fmt_f64(tf) \o <<")">>
         IN  Ok(InstantVector(new))

holt_winters(v, sf, tf) ==
    IF f64_le(sf, Fin(0)) \/ f64_le(tf, Fin(0)) \/ f64_ge(sf, Fin(100)) \/ f64_ge(tf, Fin(100))
    THEN Err("InvalidFunctionArgument", HoltWintersMessage)
    ELSE LET query == v.query
             new   == <<"h", "o", "l", "t", "_", "w", "i", "n", "t", "e", "r", "s", "(">> \o query \o <<",", " ">> \o fmt_f64(sf) \o <<",", " ">> \o fmt_f64(tf) \o <<")">>
         IN  Ok(InstantVector(new))

\* destination label name in label_join() cannot be empty
LabelJoinDstMessage ==
    <<"d", "e", "s", "t", "i", "n", "a", "t", "i", "o", "n", " ", "l", "a", "b", "e", "l", " ", "n", "a", "m", "e", " ", "i", "n", " ", "l", "a", "b", "e", "l", "_", "j", "o", "i", "n", "(", ")", " ", "c", "a", "n", "n", "o", "t", " ", "b", "e", " ", "e", "m", "p", "t", "y">>

\* list of source label names in label_join() cannot be empty
LabelJoinSrcMessage ==
    <<"l", "i", "s", "t", " ", "o", "f", " ", "s", "o", "u", "r", "c", "e", " ", "l", "a", "b", "e", "l", " ", "n", "a", "m", "e", "s", " ", "i", "n", " ", "l", "a", "b", "e", "l", "_", "j", "o", "i", "n", "(", ")", " ", "c", "a", "n", "n", "o", "t", " ", "b", "e", " ", "e", "m", "p", "t", "y">>

\* format!("\"{}\"", l)
quote(l) == <<"\"">> \o l \o <<"\"">>

\* Faulty variant: a separator follows every item, the last one too.
RECURSIVE join_trailing(_, _)
join_trailing(items, sep) ==
    IF items = <<>> THEN <<>>
    ELSE Head(items) \o sep \o join_trailing(Tail(items), sep)

\* Vec<String>::join(sep)
RECURSIVE join(_, _)
join(items, sep) ==
    IF items = <<>> THEN <<>>
    ELSE IF Len(items) = 1 THEN Head(items)
    ELSE Head(items) \o sep \o join(Tail(items), sep)

\* Faulty variant: the list of source labels is not checked.
label_join_unchecked_sources(v, dst_label, separator, src_labels) ==
    IF dst_label = <<>>
    THEN Err("InvalidFunctionArgument", LabelJoinDstMessage)
    ELSE LET query  == v.query
             quoted == join([i \in 1..Len(src_labels) |-> quote(src_labels[i])], <<",", " ">>)
             new    == <<"l", "a", "b", "e", "l", "_", "j", "o", "i", "n", "(">> \o query \o <<",", " ", "\"">> \o dst_label \o <<"\"", ",", " ", "\"">>
                       \o separator \o <<"\"", ",", " ">> \o quoted \o <<")">>
         IN  Ok(InstantVector(new))

\* Faulty variant: the source list is checked before the destination label.
label_join_sources_first(v, dst_label, separator, src_labels) ==
    IF src_labels = <<>>
    THEN Err("InvalidFunctionArgument", LabelJoinSrcMessage)
    ELSE IF dst_label = <<>>
    THEN Err("InvalidFunctionArgument", LabelJoinDstMessage)
    ELSE LET query  == v.query
             quoted == join([i \in 1..Len(src_labels) |-> quote(src_labels[i])], <<",", " ">>)
             new    == <<"l", "a", "b", "e", "l", "_", "j", "o", "i", "n", "(">> \o query \o <<",", " ", "\"">> \o dst_label \o <<"\"", ",", " ", "\"">>
                       \o separator \o <<"\"", ",", " ">> \o quoted \o <<")">>
         IN  Ok(InstantVector(new))

label_join(v, dst_label, separator, src_labels) ==
    IF dst_label = <<>>
    THEN Err("InvalidFunctionArgument", LabelJoinDstMessage)
    ELSE IF src_labels = <<>>
    THEN Err("InvalidFunctionArgument", LabelJoinSrcMessage)
    ELSE LET query  == v.query
             quoted == join([i \in 1..Len(src_labels) |-> quote(src_labels[i])], <<",", " ">>)
             new    == <<"l", "a", "b", "e", "l", "_", "j", "o", "i", "n", "(">> \o query \o <<",", " ", "\"">> \o dst_label \o <<"\"", ",", " ", "\"">>
                       \o separator \o <<"\"", ",", " ">> \o quoted \o <<")">>
         IN  Ok(InstantVector(new))

\* Faulty variant: the message was copied from label_join.
LabelReplaceMessageCopied ==
    <<"d", "e", "s", "t", "i", "n", "a", "t", "i", "o", "n", " ", "l", "a", "b", "e", "l", " ", "n", "a", "m", "e", " ", "i", "n", " ", "l", "a", "b", "e", "l", "_", "j", "o", "i", "n", "(", ")", " ", "c", "a", "n", "n", "o", "t", " ", "b", "e", " ", "e", "m", "p", "t", "y">>

\* destination label name in label_replace() cannot be empty
LabelReplaceMessage ==
    <<"d", "e", "s", "t", "i", "n", "a", "t", "i", "o", "n", " ", "l", "a", "b", "e", "l", " ", "n", "a", "m", "e", " ", "i", "n", " ", "l", "a", "b", "e", "l", "_", "r", "e", "p", "l", "a", "c", "e", "(", ")", " ", "c", "a", "n", "n", "o", "t", " ", "b", "e", " ", "e", "m", "p", "t", "y">>

\* Faulty variant: the source label is written before the replacement.
label_replace_swapped(v, dst_label, replacement, src_label, regex) ==
    IF dst_label = <<>>
    THEN Err("InvalidFunctionArgument", LabelReplaceMessage)
    ELSE LET query == v.query
             new   == <<"l", "a", "b", "e", "l", "_", "r", "e", "p", "l", "a", "c", "e", "(">> \o query \o <<",", " ", "\"">> \o dst_label \o <<"\"", ",", " ", "\"">>
                      \o src_label \o <<"\"", ",", " ", "\"">> \o replacement \o <<"\"", ",", " ", "\"">> \o regex \o <<"\"", ")">>
         IN  Ok(InstantVector(new))

label_replace(v, dst_label, replacement, src_label, regex) ==
    IF dst_label = <<>>
    THEN Err("InvalidFunctionArgument", LabelReplaceMessage)
    ELSE LET query == v.query
             new   == <<"l", "a", "b", "e", "l", "_", "r", "e", "p", "l", "a", "c", "e", "(">> \o query \o <<",", " ", "\"">> \o dst_label \o <<"\"", ",", " ", "\"">>
                      \o replacement \o <<"\"", ",", " ", "\"">> \o src_label \o <<"\"", ",", " ", "\"">> \o regex \o <<"\"", ")">>
         IN  Ok(InstantVector(new))

\* Faulty variant: the result is a range vector.
predict_linear_range(v, seconds) ==
    LET query == v.query
        new   == <<"p", "r", "e", "d", "i", "c", "t", "_", "l", "i", "n", "e", "a", "r", "(">> \o query \o <<",", " ">> \o fmt_f64(seconds) \o <<")">>
    IN  RangeVector(new)

predict_linear(v, seconds) ==
    LET query == v.query
        new   == <<"p", "r", "e", "d", "i", "c", "t", "_", "l", "i", "n", "e", "a", "r", "(">> \o query \o <<",", " ">> \o fmt_f64(seconds) \o <<")">>
    IN  InstantVector(new)

\* Faulty variant: a nearest of zero is taken for an absent one.
round_zero_as_none(v, to_nearest) ==
    LET query == v.query
        new   == IF to_nearest # <<>> /\ to_nearest[1] # Fin(0)
                 THEN <<"r", "o", "u", "n", "d", "(">> \o query \o <<",", " ">> \o fmt_f64(to_nearest[1]) \o <<")">>
                 ELSE <<"r", "o", "u", "n", "d", "(">> \o query \o <<")">>
    IN  InstantVector(new)

\* to_nearest is an Option<f64>: <<>> is None, <<x>> is Some(x)
round(v, to_nearest) ==
    LET query == v.query
        new   == IF to_nearest # <<>>
                 THEN <<"r", "o", "u", "n", "d", "(">> \o query \o <<",", " ">> \o fmt_f64(to_nearest[1]) \o <<")">>
                 ELSE <<"r", "o", "u", "n", "d", "(">> \o query \o <<")">>
    IN  InstantVector(new)

quantile_over_time(quantile, v) ==
    LET query == v.query
        new   == <<"q", "u", "a", "n", "t", "i", "l", "e", "_", "o", "v", "e", "r", "_", "t", "i", "m", "e", "(">> \o fmt_f64(quantile) \o <<",", " ">> \o query \o <<")">>
    IN  InstantVector(new)

(***************************************************************************)
(* The caller: it owns one vector and passes it through calls.  A function *)
(* is callable only on a vector of the type its signature names.           *)
(***************************************************************************)
NoCall == [name |-> "", nums |-> <<>>, strs |-> <<>>, labels |-> <<>>]

\* The String buffers of the process: two callers hold at most one each, and a
\* call holds its input and its result at once.
Buffers == {1, 2, 3}

Callers == {"a", "b"}

\* No caller besides the one of vector.
NoCallers ==
    /\ heap = [b \in Buffers |-> <<>>]
    /\ live = {}
    /\ callers = [c \in Callers |-> [expr |-> [type |-> "Moved", buf |-> 0],
                                     start |-> Moved, log |-> <<>>, input |-> Moved,
                                     result |-> [ok |-> TRUE, error |-> "", message |-> <<>>]]]

Init ==
    /\ NoCallers
    /\ vector \in StartVectors
    /\ input = Moved
    /\ call = NoCall
    /\ result = [ok |-> TRUE, error |-> "", message |-> <<>>]
    /\ history = <<>>

Accepts(source_type) ==
    /\ vector.type = source_type
    /\ Len(vector.query) <= MaxQueryLen

\* Faulty variant: a failed call hands the vector back to the caller.
ReturnInputOnError(name, nums, strs, labels, res) ==
    /\ input' = vector
    /\ call' = [name |-> name, nums |-> nums, strs |-> strs, labels |-> labels]
    /\ result' = [ok |-> res.ok, error |-> res.error, message |-> res.message]
    /\ vector' = IF res.ok THEN res.value ELSE vector
    /\ history' = Append(history, vector.query)
    /\ UNCHANGED <<heap, live, callers>>

\* The vector moves into the call; the caller is left with the call's result.
Return(name, nums, strs, labels, res) ==
    /\ input' = vector
    /\ call' = [name |-> name, nums |-> nums, strs |-> strs, labels |-> labels]
    /\ result' = [ok |-> res.ok, error |-> res.error, message |-> res.message]
    /\ vector' = IF res.ok THEN res.value ELSE Moved
    /\ history' = Append(history, vector.query)
    /\ UNCHANGED <<heap, live, callers>>

CallFunction ==
    \E f \in Functions :
        /\ Accepts(f.source_type)
        /\ Return(f.func_name, <<>>, <<>>, <<>>,
                  Ok(create_function(f.func_name, f.source_type, f.result_type, vector)))

CallClamp ==
    \E min \in F64s, max \in F64s :
        /\ Accepts("InstantVector")
        /\ Return("clamp", <<min, max>>, <<>>, <<>>, Ok(clamp(vector, min, max)))

CallClampMax ==
    \E max \in F64s :
        /\ Accepts("InstantVector")
        /\ Return("clamp_max", <<max>>, <<>>, <<>>, Ok(clamp_max(vector, max)))

CallClampMin ==
    \E min \in F64s :
        /\ Accepts("InstantVector")
        /\ Return("clamp_min", <<min>>, <<>>, <<>>, Ok(clamp_min(vector, min)))

CallHistogramQuantile ==
    \E quantile \in F64s :
        /\ Accepts("InstantVector")
        /\ Return("histogram_quantile", <<quantile>>, <<>>, <<>>,
                  Ok(histogram_quantile(quantile, vector)))

CallHoltWinters ==
    \E sf \in F64s, tf \in F64s :
        /\ Accepts("RangeVector")
        /\ Return("holt_winters", <<sf, tf>>, <<>>, <<>>, holt_winters(vector, sf, tf))

CallLabelJoin ==
    \E dst_label \in Strs, separator \in Strs, src_labels \in SrcLabelLists :
        /\ Accepts("InstantVector")
        /\ Return("label_join", <<>>, <<dst_label, separator>>, src_labels,
                  label_join(vector, dst_label, separator, src_labels))

CallLabelReplace ==
    \E dst_label \in Strs, replacement \in Strs, src_label \in Strs, regex \in Strs :
        /\ Accepts("InstantVector")
        /\ Return("label_replace", <<>>, <<dst_label, replacement, src_label, regex>>, <<>>,
                  label_replace(vector, dst_label, replacement, src_label, regex))

CallPredictLinear ==
    \E seconds \in F64s :
        /\ Accepts("RangeVector")
        /\ Return("predict_linear", <<seconds>>, <<>>, <<>>, Ok(predict_linear(vector, seconds)))

CallRound ==
    \E to_nearest \in {<<>>} \cup {<<x>> : x \in F64s} :
        /\ Accepts("InstantVector")
        /\ Return("round", to_nearest, <<>>, <<>>, Ok(round(vector, to_nearest)))

CallQuantileOverTime ==
    \E quantile \in F64s :
        /\ Accepts("RangeVector")
        /\ Return("quantile_over_time", <<quantile>>, <<>>, <<>>,
                  Ok(quantile_over_time(quantile, vector)))

Next ==
    \/ CallFunction
    \/ CallClamp
    \/ CallClampMax
    \/ CallClampMin
    \/ CallHistogramQuantile
    \/ CallHoltWinters
    \/ CallLabelJoin
    \/ CallLabelReplace
    \/ CallPredictLinear
    \/ CallRound
    \/ CallQuantileOverTime

Spec == Init /\ [][Next]_vars

(***************************************************************************)
(* Two callers of the same process.  Each owns one vector, whose text lies *)
(* in a String buffer of the heap, and passes it through calls of its own; *)
(* the calls of the two interleave.                                        *)
(***************************************************************************)
MkCall(name, nums, strs, labels) ==
    [name |-> name, nums |-> nums, strs |-> strs, labels |-> labels]

\* The call expression: the function c names, applied to v and c's arguments.
Invoke(v, c) ==
    CASE c.name = "clamp" -> Ok(clamp(v, c.nums[1], c.nums[2]))
      [] c.name = "clamp_max" -> Ok(clamp_max(v, c.nums[1]))
      [] c.name = "clamp_min" -> Ok(clamp_min(v, c.nums[1]))
      [] c.name = "histogram_quantile" -> Ok(histogram_quantile(c.nums[1], v))
      [] c.name = "holt_winters" -> holt_winters(v, c.nums[1], c.nums[2])
      [] c.name = "label_join" -> label_join(v, c.strs[1], c.strs[2], c.labels)
      [] c.name = "label_replace" ->
             label_replace(v, c.strs[1], c.strs[2], c.strs[3], c.strs[4])
      [] c.name = "predict_linear" -> Ok(predict_linear(v, c.nums[1]))
      [] c.name = "round" -> Ok(round(v, c.nums))
      [] c.name = "quantile_over_time" -> Ok(quantile_over_time(c.nums[1], v))
      [] OTHER ->
             LET f == CHOOSE g \in Functions : g.func_name = c.name
             IN  Ok(create_function(f.func_name, f.source_type, f.result_type, v))

\* 0.5 and 1.0
CallerF64s == {Fin(50), Fin(100)}

\* the empty string and l
CallerStrs == {<<>>, <<"l">>}

\* The calls the two callers choose from, by the type of the vector they hold.
CallsOn(type) ==
    IF type = "InstantVector"
    THEN {MkCall("abs", <<>>, <<>>, <<>>)}
         \cup {MkCall("clamp", <<x, y>>, <<>>, <<>>) : x \in CallerF64s, y \in CallerF64s}
         \cup {MkCall("clamp_max", <<x>>, <<>>, <<>>) : x \in CallerF64s}
         \cup {MkCall("clamp_min", <<x>>, <<>>, <<>>) : x \in CallerF64s}
         \cup {MkCall("histogram_quantile", <<x>>, <<>>, <<>>) : x \in CallerF64s}
         \cup {MkCall("round", n, <<>>, <<>>) : n \in {<<>>} \cup {<<x>> : x \in CallerF64s}}
         \cup {MkCall("label_join", <<>>, <<d, <<>>>>, ls) :
                   d \in CallerStrs, ls \in {<<>>, <<<<"l">>>>}}
         \cup {MkCall("label_replace", <<>>, <<d, d, d, d>>, <<>>) : d \in CallerStrs}
    ELSE {MkCall("rate", <<>>, <<>>, <<>>)}
         \cup {MkCall("holt_winters", <<x, y>>, <<>>, <<>>) : x \in CallerF64s, y \in CallerF64s}
         \cup {MkCall("predict_linear", <<x>>, <<>>, <<>>) : x \in CallerF64s}
         \cup {MkCall("quantile_over_time", <<x>>, <<>>, <<>>) : x \in CallerF64s}

\* Faulty variant: the text is read from one fixed buffer of the process.
query_of_first(c) == heap[1]

\* let $source_type(query) = vector: the text of the vector caller c passed.
query_of(c) == heap[callers[c].expr.buf]

\* Faulty variant: the result is built in one buffer kept for all calls.
new_string_static(allocated) == {1}

\* format! builds its result in a new String: a buffer not allocated so far.
new_string(allocated) == Buffers \ allocated

\* Faulty variant: the result replaces the vector of every caller.
returned_to_all(c, expr, call_made, in, res) ==
    [d \in Callers |->
        IF d = c
        THEN [expr |-> expr,
              start |-> callers[c].start,
              log |-> Append(callers[c].log, call_made),
              inputs |-> Append(callers[c].inputs, in),
              outcomes |-> Append(callers[c].outcomes, res)]
        ELSE [callers[d] EXCEPT !.expr = expr]]

\* The function returns to its caller: what c is left with.
returned(c, expr, call_made, in, res) ==
    [callers EXCEPT ![c] = [expr |-> expr,
                            start |-> callers[c].start,
                            log |-> Append(callers[c].log, call_made),
                            inputs |-> Append(callers[c].inputs, in),
                            outcomes |-> Append(callers[c].outcomes, res)]]

CallersInit ==
    /\ vector = Moved
    /\ input = Moved
    /\ call = NoCall
    /\ result = [ok |-> TRUE, error |-> "", message |-> <<>>]
    /\ history = <<>>
    /\ \E sa \in StartVectors, sb \in StartVectors :
           /\ heap = [b \in Buffers |-> IF b = 1 THEN sa.query
                                        ELSE IF b = 2 THEN sb.query ELSE <<>>]
           /\ live = {1, 2}
           /\ callers = [c \in Callers |->
                             [expr |-> [type |-> IF c = "a" THEN sa.type ELSE sb.type,
                                        buf |-> IF c = "a" THEN 1 ELSE 2],
                              start |-> IF c = "a" THEN sa ELSE sb,
                              log |-> <<>>,
                              inputs |-> <<>>,
                              outcomes |-> <<>>]]

\* One call by caller c: its vector moves into the function, the result is
\* formatted into a new String, the input's buffer is dropped at the return.
CallerCall(c) ==
    /\ callers[c].expr.type # "Moved"
    /\ Len(query_of(c)) <= MaxQueryLen
    /\ \E call_made \in CallsOn(callers[c].expr.type) :
           LET old == callers[c].expr.buf
               in  == [type |-> callers[c].expr.type, query |-> heap[old]]
               res == Invoke([type |-> in.type, query |-> query_of(c)], call_made)
           IN  IF res.ok
               THEN \E b \in new_string(live) :
                        /\ heap' = [[heap EXCEPT ![b] = res.value.query] EXCEPT ![old] = <<>>]
                        /\ live' = (live \cup {b}) \ {old}
                        /\ callers' = returned(c, [type |-> res.value.type, buf |-> b],
                                               call_made, in, res)
               ELSE /\ heap' = [heap EXCEPT ![old] = <<>>]
                    /\ live' = live \ {old}
                    /\ callers' = returned(c, [type |-> "Moved", buf |-> 0],
                                           call_made, in, res)
    /\ UNCHANGED <<vector, input, call, result, history>>

CallersNext == \E c \in Callers : CallerCall(c)

TwoCallers == CallersInit /\ [][CallersNext]_vars


(***************************************************************************)
(* Helpers of the properties.                                              *)
(***************************************************************************)
Failed == ~result.ok /\ result.error = "InvalidFunctionArgument" /\ vector = Moved

Succeeded == result.ok /\ vector.type = "InstantVector"

IsPrefix(p, s) == Len(p) <= Len(s) /\ SubSeq(s, 1, Len(p)) = p

(***************************************************************************)
(* holt_winters                                                            *)
(***************************************************************************)
FactorsNamedRejected == {Fin(0), Fin(100), Fin(-10), Fin(110)}

FactorsNamedInside == {Fin(50), Fin(75), Fin(90)}

NumeralOf(x) == CASE x = Fin(50) -> <<"0", ".", "5">>
                  [] x = Fin(75) -> <<"0", ".", "7", "5">>
                  [] x = Fin(90) -> <<"0", ".", "9">>

\* C1: holt_winters fails with InvalidFunctionArgument whenever sf or tf is one
\* of 0.0, 1.0, -0.1, 1.1, whatever the other factor is, and succeeds with the
\* text holt_winters(<inner>, <sf>, <tf>) when both are strictly inside (0,1).
HoltWintersBoundary ==
    call.name = "holt_winters" =>
        LET sf == call.nums[1]
            tf == call.nums[2]
        IN  /\ (sf \in FactorsNamedRejected \/ tf \in FactorsNamedRejected) => Failed
            /\ (sf \in FactorsNamedInside /\ tf \in FactorsNamedInside) =>
                   /\ Succeeded
                   /\ vector.query = <<"h", "o", "l", "t", "_", "w", "i", "n", "t", "e", "r", "s", "(">> \o input.query \o <<",", " ">>
                                     \o NumeralOf(sf) \o <<",", " ">> \o NumeralOf(tf) \o <<")">>

\* A valid sf with the boundary tf = 1.0 was rejected, and nothing is left.
HoltWintersBoundaryWitness ==
    /\ call.name = "holt_winters"
    /\ call.nums = <<Fin(50), Fin(100)>>
    /\ input = RangeVector(<<"m", "{", "l", "=", "\"", "v", "\"", "}", "[", "5", "m", "]">>)
    /\ Failed

StrictlyInside(x) == x.k = "fin" /\ 0 < x.m /\ x.m < 100

\* C2: for every pair of f64 factors, NaN and the infinities included, if sf or
\* tf is not strictly inside (0,1) the call fails with InvalidFunctionArgument
\* and produces no query.
HoltWintersRejectsAllOutside ==
    (call.name = "holt_winters"
        /\ ~(StrictlyInside(call.nums[1]) /\ StrictlyInside(call.nums[2])))
    => Failed

(***************************************************************************)
(* label_join                                                              *)
(***************************************************************************)
\* C3: label_join fails with InvalidFunctionArgument when the destination label
\* is empty (any separator, any source list) and when the source list is empty
\* (any non-empty destination); it succeeds whenever the destination is
\* non-empty and the list has at least one element.
LabelJoinValidation ==
    call.name = "label_join" =>
        LET dst == call.strs[1]
        IN  /\ Len(dst) = 0 => Failed
            /\ (Len(dst) > 0 /\ Len(call.labels) = 0) => Failed
            /\ (Len(dst) > 0 /\ Len(call.labels) >= 1) => Succeeded

\* A non-empty destination with an empty source list was rejected.
LabelJoinValidationWitness ==
    /\ call.name = "label_join"
    /\ call.strs[1] = <<"l">>
    /\ call.labels = <<>>
    /\ Failed

\* The first n labels, each between double quotes, ", " before all but the first.
RECURSIVE QuotedUpTo(_, _)
QuotedUpTo(labels, n) ==
    IF n = 0 THEN <<>>
    ELSE QuotedUpTo(labels, n - 1) \o (IF n > 1 THEN <<",", " ">> ELSE <<>>)
         \o <<"\"">> \o labels[n] \o <<"\"">>

\* C4: on success label_join produces
\* label_join(<inner>, "<dst>", "<separator>", <sources>) with every source
\* label in double quotes, in the order supplied, joined by ", " with no leading
\* or trailing separator, after the unchanged inner text.
LabelJoinText ==
    (call.name = "label_join" /\ result.ok) =>
        vector.query = <<"l", "a", "b", "e", "l", "_", "j", "o", "i", "n", "(">> \o input.query
                       \o <<",", " ", "\"">> \o call.strs[1] \o <<"\"", ",", " ", "\"">> \o call.strs[2] \o <<"\"", ",", " ">>
                       \o QuotedUpTo(call.labels, Len(call.labels)) \o <<")">>

\* Two source labels, l then a backslash, came out in that order.
LabelJoinTextWitness ==
    /\ call.name = "label_join"
    /\ call.labels = <<<<"l">>, <<"\\">> >>
    /\ call.strs = <<<<"l">>, <<>> >>
    /\ vector = InstantVector(<<"l", "a", "b", "e", "l", "_", "j", "o", "i", "n", "(", "m", "{", "l", "=", "\"", "v", "\"", "}", ",", " ", "\"", "l", "\"", ",", " ", "\"", "\"", ",", " ", "\"", "l", "\"", ",", " ", "\"", "\\", "\"", ")">>)

(***************************************************************************)
(* Quoting of string arguments                                             *)
(***************************************************************************)
RECURSIVE Escaped(_)
Escaped(s) ==
    IF s = <<>> THEN <<>>
    ELSE (IF Head(s) \in {"\"", "\\"} THEN <<"\\", Head(s)>> ELSE <<Head(s)>>)
         \o Escaped(Tail(s))

QuotedEscaped(s) == <<"\"">> \o Escaped(s) \o <<"\"">>

RECURSIVE QuotedEscapedUpTo(_, _)
QuotedEscapedUpTo(labels, n) ==
    IF n = 0 THEN <<>>
    ELSE QuotedEscapedUpTo(labels, n - 1) \o (IF n > 1 THEN <<",", " ">> ELSE <<>>)
         \o QuotedEscaped(labels[n])

\* C5: every string argument of label_join and of label_replace is emitted
\* between double quotes with every internal double quote and backslash
\* escaped, whatever the string contains.
StringArgumentsEscaped ==
    /\ (call.name = "label_join" /\ result.ok) =>
           vector.query = <<"l", "a", "b", "e", "l", "_", "j", "o", "i", "n", "(">> \o input.query
                          \o <<",", " ">> \o QuotedEscaped(call.strs[1])
                          \o <<",", " ">> \o QuotedEscaped(call.strs[2])
                          \o <<",", " ">> \o QuotedEscapedUpTo(call.labels, Len(call.labels)) \o <<")">>
    /\ (call.name = "label_replace" /\ result.ok) =>
           vector.query = <<"l", "a", "b", "e", "l", "_", "r", "e", "p", "l", "a", "c", "e", "(">> \o input.query
                          \o <<",", " ">> \o QuotedEscaped(call.strs[1])
                          \o <<",", " ">> \o QuotedEscaped(call.strs[2])
                          \o <<",", " ">> \o QuotedEscaped(call.strs[3])
                          \o <<",", " ">> \o QuotedEscaped(call.strs[4]) \o <<")">>

(***************************************************************************)
(* Syntactic completeness                                                  *)
(***************************************************************************)
\* Reads t from position i: depth counts the parentheses open outside string
\* literals, in_string tells whether a literal is open, escaped whether the
\* previous character of the literal was an unescaped backslash.
RECURSIVE Complete(_, _, _, _, _)
Complete(t, i, depth, in_string, escaped) ==
    IF i > Len(t) THEN depth = 0 /\ ~in_string
    ELSE IF in_string
         THEN IF escaped THEN Complete(t, i + 1, depth, TRUE, FALSE)
              ELSE IF t[i] = "\\" THEN Complete(t, i + 1, depth, TRUE, TRUE)
              ELSE IF t[i] = "\"" THEN Complete(t, i + 1, depth, FALSE, FALSE)
              ELSE Complete(t, i + 1, depth, TRUE, FALSE)
         ELSE IF t[i] = "\"" THEN Complete(t, i + 1, depth, TRUE, FALSE)
              ELSE IF t[i] = "(" THEN Complete(t, i + 1, depth + 1, FALSE, FALSE)
              ELSE IF t[i] = ")" THEN depth > 0 /\ Complete(t, i + 1, depth - 1, FALSE, FALSE)
              ELSE Complete(t, i + 1, depth, FALSE, FALSE)

\* C6: after any sequence of successful calls from a well-formed selector, the
\* expression text has balanced parentheses outside string literals and every
\* double-quoted string literal closed.
QuerySyntacticallyComplete ==
    vector # Moved => Complete(vector.query, 1, 0, FALSE, FALSE)

(***************************************************************************)
(* round                                                                   *)
(***************************************************************************)
\* C7: round(v, None) produces round(<inner>) with no trailing argument and
\* round(v, Some(x)) produces round(<inner>, <x>) for every x, x = 0 included.
RoundOptionalNearest ==
    call.name = "round" =>
        /\ Succeeded
        /\ call.nums = <<>> => vector.query = <<"r", "o", "u", "n", "d", "(">> \o input.query \o <<")">>
        /\ call.nums # <<>> =>
               /\ vector.query = <<"r", "o", "u", "n", "d", "(">> \o input.query \o <<",", " ">>
                                 \o fmt_f64(call.nums[1]) \o <<")">>
               /\ Len(vector.query) > Len(input.query) + 9
        /\ call.nums = <<Fin(0)>> =>
               vector.query = <<"r", "o", "u", "n", "d", "(">> \o input.query \o <<",", " ", "0", ")">>

\* Some(0.0) was rendered, not dropped.
RoundOptionalNearestWitness ==
    /\ call.name = "round"
    /\ call.nums = <<Fin(0)>>
    /\ vector = InstantVector(<<"r", "o", "u", "n", "d", "(", "m", "{", "l", "=", "\"", "v", "\"", "}", ",", " ", "0", ")">>)

(***************************************************************************)
(* label_replace                                                           *)
(***************************************************************************)
\* C8: label_replace fails with InvalidFunctionArgument when the destination
\* label is empty, and otherwise produces
\* label_replace(<inner>, "<dst>", "<replacement>", "<src>", "<regex>") with the
\* four strings in that order after the unchanged inner text.
LabelReplaceContract ==
    call.name = "label_replace" =>
        /\ Len(call.strs[1]) = 0 => Failed
        /\ Len(call.strs[1]) > 0 =>
               /\ Succeeded
               /\ vector.query = <<"l", "a", "b", "e", "l", "_", "r", "e", "p", "l", "a", "c", "e", "(">> \o input.query
                                 \o <<",", " ", "\"">> \o call.strs[1] \o <<"\"", ",", " ", "\"">> \o call.strs[2]
                                 \o <<"\"", ",", " ", "\"">> \o call.strs[3] \o <<"\"", ",", " ", "\"">> \o call.strs[4]
                                 \o <<"\"", ")">>

\* Four different argument positions are told apart in the output.
LabelReplaceContractWitness ==
    /\ call.name = "label_replace"
    /\ call.strs = <<<<"l">>, <<>>, <<"\\">>, <<"l">>>>
    /\ vector = InstantVector(<<"l", "a", "b", "e", "l", "_", "r", "e", "p", "l", "a", "c", "e", "(", "m", "{", "l", "=", "\"", "v", "\"", "}", ",", " ", "\"", "l", "\"", ",", " ", "\"", "\"", ",", " ", "\"", "\\", "\"", ",", " ", "\"", "l", "\"", ")">>)

(***************************************************************************)
(* The generated functions                                                 *)
(***************************************************************************)
FunctionNames == {f.func_name : f \in Functions}

Lowercase == {"a", "b", "c", "d", "e", "f", "g", "h", "i", "j", "k", "l", "m",
              "n", "o", "p", "q", "r", "s", "t", "u", "v", "w", "x", "y", "z",
              "0", "1", "2", "3", "4", "5", "6", "7", "8", "9", "_"}

\* C9: every macro-generated unary function succeeds on any input of its
\* accepted type and returns an InstantVector whose text is <name>(<inner>),
\* <name> being its lowercase identifier and <inner> the input text unchanged.
GeneratedFunctionText ==
    call.name \in FunctionNames =>
        LET f    == CHOOSE g \in Functions : g.func_name = call.name
            name == stringify[call.name]
        IN  /\ input.type = f.source_type
            /\ Succeeded
            /\ \A i \in 1..Len(name) : name[i] \in Lowercase
            /\ Len(vector.query) = Len(name) + Len(input.query) + 2
            /\ IsPrefix(name \o <<"(">>, vector.query)
            /\ SubSeq(vector.query, Len(name) + 2, Len(vector.query) - 1) = input.query
            /\ vector.query[Len(vector.query)] = ")"

\* rate took a range vector and returned the instant vector rate(<inner>).
GeneratedFunctionTextWitness ==
    /\ call.name = "rate"
    /\ input = RangeVector(<<"m", "{", "l", "=", "\"", "v", "\"", "}", "[", "5", "m", "]">>)
    /\ vector = InstantVector(<<"r", "a", "t", "e", "(", "m", "{", "l", "=", "\"", "v", "\"", "}", "[", "5", "m", "]", ")">>)

(***************************************************************************)
(* clamp, clamp_min, clamp_max                                             *)
(***************************************************************************)
\* C10: clamp(v, min, max) produces clamp(<inner>, <min>, <max>): the inner
\* text first and unchanged, then min, then max, separated by ", "; clamp_min
\* and clamp_max produce clamp_min(<inner>, <min>) and clamp_max(<inner>, <max>).
ClampText ==
    /\ call.name = "clamp" =>
           /\ Succeeded
           /\ vector.query = <<"c", "l", "a", "m", "p", "(">> \o input.query \o <<",", " ">> \o fmt_f64(call.nums[1])
                             \o <<",", " ">> \o fmt_f64(call.nums[2]) \o <<")">>
    /\ (call.name = "clamp" /\ call.nums = <<Fin(50), Fin(75)>>) =>
           vector.query = <<"c", "l", "a", "m", "p", "(">> \o input.query \o <<",", " ", "0", ".", "5", ",", " ", "0", ".", "7", "5", ")">>
    /\ call.name = "clamp_min" =>
           /\ Succeeded
           /\ vector.query = <<"c", "l", "a", "m", "p", "_", "m", "i", "n", "(">> \o input.query \o <<",", " ">>
                             \o fmt_f64(call.nums[1]) \o <<")">>
    /\ call.name = "clamp_max" =>
           /\ Succeeded
           /\ vector.query = <<"c", "l", "a", "m", "p", "_", "m", "a", "x", "(">> \o input.query \o <<",", " ">>
                             \o fmt_f64(call.nums[1]) \o <<")">>

\* The documented example: min 0.5 and max 0.75, in that order.
ClampTextWitness ==
    /\ call.name = "clamp"
    /\ call.nums = <<Fin(50), Fin(75)>>
    /\ vector = InstantVector(<<"c", "l", "a", "m", "p", "(", "m", "{", "l", "=", "\"", "v", "\"", "}", ",", " ", "0", ".", "5", ",", " ", "0", ".", "7", "5", ")">>)

(***************************************************************************)
(* Error messages                                                          *)
(***************************************************************************)
Contains(s, sub) ==
    \E i \in 1..(Len(s) - Len(sub) + 1) : SubSeq(s, i, i + Len(sub) - 1) = sub

\* The identifiers of the hand-written functions, as text.
WrittenNames ==
    [ clamp |-> <<"c", "l", "a", "m", "p">>,
      clamp_max |-> <<"c", "l", "a", "m", "p", "_", "m", "a", "x">>,
      clamp_min |-> <<"c", "l", "a", "m", "p", "_", "m", "i", "n">>,
      histogram_quantile |-> <<"h", "i", "s", "t", "o", "g", "r", "a", "m", "_", "q", "u", "a", "n", "t", "i", "l", "e">>,
      holt_winters |-> <<"h", "o", "l", "t", "_", "w", "i", "n", "t", "e", "r", "s">>,
      label_join |-> <<"l", "a", "b", "e", "l", "_", "j", "o", "i", "n">>,
      label_replace |-> <<"l", "a", "b", "e", "l", "_", "r", "e", "p", "l", "a", "c", "e">>,
      predict_linear |-> <<"p", "r", "e", "d", "i", "c", "t", "_", "l", "i", "n", "e", "a", "r">>,
      round |-> <<"r", "o", "u", "n", "d">>,
      quantile_over_time |-> <<"q", "u", "a", "n", "t", "i", "l", "e", "_", "o", "v", "e", "r", "_", "t", "i", "m", "e">> ]

NameText(name) ==
    IF name \in DOMAIN WrittenNames THEN WrittenNames[name] ELSE stringify[name]

\* C11: every InvalidFunctionArgument error carries a message that names the
\* offending function (holt_winters, label_join or label_replace) and the
\* violated constraint, and the two label_join failures (empty destination,
\* empty source list) carry different messages.
ErrorMessageNamesFunction ==
    ~result.ok =>
        /\ result.error = "InvalidFunctionArgument"
        /\ call.name \in {"holt_winters", "label_join", "label_replace"}
        /\ Contains(result.message, NameText(call.name) \o <<"(", ")">>)
        /\ call.name = "holt_winters" =>
               /\ Contains(result.message, <<"s", "m", "o", "o", "t", "h", "i", "n", "g", " ", "f", "a", "c", "t", "o", "r", "s">>)
               /\ Contains(result.message, <<"b", "e", "t", "w", "e", "e", "n", " ", "0", ".", "0", " ", "(", "e", "x", "c", "l", ".", ")", " ", "a", "n", "d", " ", "1", ".", "0", " ", "(", "e", "x", "c", "l", ".", ")">>)
        /\ call.name = "label_replace" =>
               /\ Contains(result.message, <<"d", "e", "s", "t", "i", "n", "a", "t", "i", "o", "n", " ", "l", "a", "b", "e", "l", " ", "n", "a", "m", "e">>)
               /\ Contains(result.message, <<"c", "a", "n", "n", "o", "t", " ", "b", "e", " ", "e", "m", "p", "t", "y">>)
        /\ (call.name = "label_join" /\ call.strs[1] = <<>>) =>
               /\ Contains(result.message, <<"d", "e", "s", "t", "i", "n", "a", "t", "i", "o", "n", " ", "l", "a", "b", "e", "l", " ", "n", "a", "m", "e">>)
               /\ ~Contains(result.message, <<"s", "o", "u", "r", "c", "e", " ", "l", "a", "b", "e", "l", " ", "n", "a", "m", "e", "s">>)
               /\ Contains(result.message, <<"c", "a", "n", "n", "o", "t", " ", "b", "e", " ", "e", "m", "p", "t", "y">>)
        /\ (call.name = "label_join" /\ call.strs[1] # <<>>) =>
               /\ Contains(result.message, <<"l", "i", "s", "t", " ", "o", "f", " ", "s", "o", "u", "r", "c", "e", " ", "l", "a", "b", "e", "l", " ", "n", "a", "m", "e", "s">>)
               /\ ~Contains(result.message, <<"d", "e", "s", "t", "i", "n", "a", "t", "i", "o", "n", " ", "l", "a", "b", "e", "l", " ", "n", "a", "m", "e">>)
               /\ Contains(result.message, <<"c", "a", "n", "n", "o", "t", " ", "b", "e", " ", "e", "m", "p", "t", "y">>)

\* label_replace with an empty destination failed and its message names it.
ErrorMessageNamesFunctionWitness ==
    /\ call.name = "label_replace"
    /\ call.strs[1] = <<>>
    /\ ~result.ok
    /\ Contains(result.message, <<"l", "a", "b", "e", "l", "_", "r", "e", "p", "l", "a", "c", "e", "(", ")">>)

(***************************************************************************)
(* Numerals                                                                *)
(***************************************************************************)
Digits == {"0", "1", "2", "3", "4", "5", "6", "7", "8", "9"}

DigitValue(c) ==
    CASE c = "0" -> 0 [] c = "1" -> 1 [] c = "2" -> 2 [] c = "3" -> 3 [] c = "4" -> 4
      [] c = "5" -> 5 [] c = "6" -> 6 [] c = "7" -> 7 [] c = "8" -> 8 [] c = "9" -> 9

\* The number a non-empty sequence of digits denotes.
RECURSIVE Natural(_)
Natural(ds) ==
    IF Len(ds) = 1 THEN DigitValue(ds[1])
    ELSE 10 * Natural(SubSeq(ds, 1, Len(ds) - 1)) + DigitValue(ds[Len(ds)])

\* Position of the first occurrence of c in t, 0 when there is none.
FirstIndex(t, c) ==
    IF \E i \in 1..Len(t) : t[i] = c
    THEN CHOOSE i \in 1..Len(t) : t[i] = c /\ \A j \in 1..(i - 1) : t[j] # c
    ELSE 0

\* A decimal numeral: optional sign, digits, optionally a point and one or two
\* more digits.
IsDecimal(t) ==
    LET body == IF t # <<>> /\ t[1] = "-" THEN Tail(t) ELSE t
        p    == FirstIndex(body, ".")
        int  == IF p = 0 THEN body ELSE SubSeq(body, 1, p - 1)
        frac == IF p = 0 THEN <<>> ELSE SubSeq(body, p + 1, Len(body))
    IN  /\ int # <<>>
        /\ \A i \in 1..Len(int) : int[i] \in Digits
        /\ \A i \in 1..Len(frac) : frac[i] \in Digits
        /\ p # 0 => Len(frac) \in {1, 2}

\* The value of a decimal numeral, in hundredths.
Hundredths(t) ==
    LET neg  == t[1] = "-"
        body == IF neg THEN Tail(t) ELSE t
        p    == FirstIndex(body, ".")
        int  == IF p = 0 THEN body ELSE SubSeq(body, 1, p - 1)
        frac == IF p = 0 THEN <<>> ELSE SubSeq(body, p + 1, Len(body))
        part == IF Len(frac) = 0 THEN 0
                ELSE IF Len(frac) = 1 THEN 10 * DigitValue(frac[1])
                ELSE Natural(frac)
        abs_value == 100 * Natural(int) + part
    IN  IF neg THEN -abs_value ELSE abs_value

\* The numeral t denotes exactly the value x.
Denotes(t, x) ==
    IF x.k = "NaN" THEN t = <<"N", "a", "N">>
    ELSE IF x.k = "inf" THEN t = (IF x.m < 0 THEN <<"-", "i", "n", "f">> ELSE <<"i", "n", "f">>)
    ELSE IsDecimal(t) /\ Hundredths(t) = x.m

\* The fields of ", a, b": what stands between the separators.
RECURSIVE Fields(_)
Fields(region) ==
    IF Len(region) < 2 THEN <<>>
    ELSE LET rest == SubSeq(region, 3, Len(region))
             p    == FirstIndex(rest, ",")
         IN  IF p = 0 THEN <<rest>>
             ELSE <<SubSeq(rest, 1, p - 1)>> \o Fields(SubSeq(rest, p, Len(rest)))

\* The numerals of the last call's numeric arguments, read back from the text
\* it produced: before the inner text for the two quantile functions, after it
\* for the others.
NumeralTexts ==
    LET q  == vector.query
        ln == Len(NameText(call.name))
        li == Len(input.query)
    IN  IF call.name \in {"histogram_quantile", "quantile_over_time"}
        THEN <<SubSeq(q, ln + 2, Len(q) - li - 3)>>
        ELSE Fields(SubSeq(q, ln + li + 2, Len(q) - 1))

\* C12: numeric arguments are rendered so that the emitted numeral denotes
\* exactly the value passed, with no fixed-precision truncation; an integral
\* value is rendered without a fractional part: predict_linear(v, 300.0)
\* emits 300.
NumeralsDenoteArguments ==
    (call.nums # <<>> /\ result.ok) =>
        /\ Len(NumeralTexts) = Len(call.nums)
        /\ \A i \in 1..Len(call.nums) :
               /\ Denotes(NumeralTexts[i], call.nums[i])
               /\ (call.nums[i].k = "fin" /\ call.nums[i].m % 100 = 0) =>
                      FirstIndex(NumeralTexts[i], ".") = 0
        /\ (call.name = "predict_linear" /\ call.nums = <<Fin(30000)>>) =>
               vector.query = <<"p", "r", "e", "d", "i", "c", "t", "_", "l", "i", "n", "e", "a", "r", "(">> \o input.query \o <<",", " ", "3", "0", "0", ")">>

\* clamp was given 0.75 and 300.0 and both numerals are in the text.
NumeralsDenoteArgumentsWitness ==
    /\ call.name = "clamp"
    /\ call.nums = <<Fin(75), Fin(30000)>>
    /\ NumeralTexts = <<<<"0", ".", "7", "5">>, <<"3", "0", "0">>>>

(***************************************************************************)
(* Types of the results                                                    *)
(***************************************************************************)
RangeFunctionNames ==
    {f.func_name : f \in {g \in Functions : g.source_type = "RangeVector"}}
    \cup {"holt_winters", "predict_linear", "quantile_over_time"}

\* C16: every function of the library returns an InstantVector, scalar
\* included, so a function that accepts a RangeVector is only ever applied
\* first, to a range vector that comes from a selector, never to the output of
\* another library function.
OnlyInstantVectorsReturned ==
    /\ \A f \in Functions : f.result_type = "InstantVector"
    /\ call.name # "" =>
           /\ result.ok => vector.type = "InstantVector"
           /\ call.name \in RangeFunctionNames =>
                  /\ input.type = "RangeVector"
                  /\ input \in StartVectors
           /\ input \notin StartVectors => call.name \notin RangeFunctionNames

\* scalar was applied to the output of rate and returned an instant vector.
OnlyInstantVectorsReturnedWitness ==
    /\ call.name = "scalar"
    /\ input = InstantVector(<<"r", "a", "t", "e", "(", "m", "{", "l", "=", "\"", "v", "\"", "}", "[", "5", "m", "]", ")">>)
    /\ vector = InstantVector(<<"s", "c", "a", "l", "a", "r", "(", "r", "a", "t", "e", "(", "m", "{", "l", "=", "\"", "v", "\"", "}", "[", "5", "m", "]", ")", ")">>)

(***************************************************************************)
(* Order of the arguments                                                  *)
(***************************************************************************)
IsSuffix(p, s) == Len(p) <= Len(s) /\ SubSeq(s, Len(s) - Len(p) + 1, Len(s)) = p

\* C17: histogram_quantile and quantile_over_time emit the quantile before the
\* inner expression; clamp, clamp_min, clamp_max, holt_winters, predict_linear,
\* round, label_join and label_replace emit the inner expression first.
ArgumentOrder ==
    result.ok =>
        /\ call.name \in {"histogram_quantile", "quantile_over_time"} =>
               LET name == NameText(call.name)
                   lead == SubSeq(vector.query, Len(name) + 2,
                                  Len(vector.query) - Len(input.query) - 3)
               IN  /\ IsPrefix(name \o <<"(">>, vector.query)
                   /\ IsSuffix(<<",", " ">> \o input.query \o <<")">>, vector.query)
                   /\ Denotes(lead, call.nums[1])
        /\ call.name \in {"clamp", "clamp_min", "clamp_max", "holt_winters",
                          "predict_linear", "round", "label_join", "label_replace"} =>
               LET head == NameText(call.name) \o <<"(">> \o input.query
               IN  /\ IsPrefix(head, vector.query)
                   /\ vector.query[Len(head) + 1] \in {",", ")"}

\* The quantile 0.5 stands before the selector text.
ArgumentOrderWitness ==
    /\ call.name = "histogram_quantile"
    /\ vector = InstantVector(<<"h", "i", "s", "t", "o", "g", "r", "a", "m", "_", "q", "u", "a", "n", "t", "i", "l", "e", "(", "0", ".", "5", ",", " ", "m", "{", "l", "=", "\"", "v", "\"", "}", ")">>)

(***************************************************************************)
(* The failing calls                                                       *)
(***************************************************************************)
\* C19: the library fails in exactly four cases: a holt_winters factor outside
\* (0,1), an empty label_join destination, an empty label_join source list, an
\* empty label_replace destination.  Every other call succeeds.
FailsInExactlyFourCases ==
    call.name # "" =>
        (~result.ok <=>
            \/ /\ call.name = "holt_winters"
               /\ ~(StrictlyInside(call.nums[1]) /\ StrictlyInside(call.nums[2]))
            \/ call.name = "label_join" /\ call.strs[1] = <<>>
            \/ call.name = "label_join" /\ call.labels = <<>>
            \/ call.name = "label_replace" /\ call.strs[1] = <<>>)

\* C20: label_join checks the destination label before the source list: with
\* both empty, the error is the one about the destination label name.
LabelJoinChecksDestinationFirst ==
    (call.name = "label_join" /\ call.strs[1] = <<>> /\ call.labels = <<>>) =>
        /\ Failed
        /\ result.message = <<"d", "e", "s", "t", "i", "n", "a", "t", "i", "o", "n", " ", "l", "a", "b", "e", "l", " ", "n", "a", "m", "e", " ", "i", "n", " ", "l", "a", "b", "e", "l", "_", "j", "o", "i", "n", "(", ")", " ", "c", "a", "n", "n", "o", "t", " ", "b", "e", " ", "e", "m", "p", "t", "y">>
        /\ result.message # <<"l", "i", "s", "t", " ", "o", "f", " ", "s", "o", "u", "r", "c", "e", " ", "l", "a", "b", "e", "l", " ", "n", "a", "m", "e", "s", " ", "i", "n", " ", "l", "a", "b", "e", "l", "_", "j", "o", "i", "n", "(", ")", " ", "c", "a", "n", "n", "o", "t", " ", "b", "e", " ", "e", "m", "p", "t", "y">>

\* Both were empty and the call failed.
LabelJoinChecksDestinationFirstWitness ==
    /\ call.name = "label_join"
    /\ call.strs[1] = <<>>
    /\ call.labels = <<>>
    /\ ~result.ok

(***************************************************************************)
(* Nesting                                                                 *)
(***************************************************************************)
\* C18: successful calls f1, ..., fn give text nested in application order:
\* it begins with the name of the last function applied, and the text each
\* earlier step produced is an unchanged contiguous part of every later result.
NestedInApplicationOrder ==
    (call.name # "" /\ result.ok) =>
        /\ IsPrefix(NameText(call.name) \o <<"(">>, vector.query)
        /\ vector.query[Len(vector.query)] = ")"
        /\ \A i \in 1..Len(history) :
               /\ Contains(vector.query, history[i])
               /\ Len(history[i]) < Len(vector.query)
               /\ \A j \in (i + 1)..Len(history) :
                      /\ Contains(history[j], history[i])
                      /\ Len(history[i]) < Len(history[j])

\* Three calls: ln, then ln, then abs.
NestedInApplicationOrderWitness ==
    /\ call.name = "abs"
    /\ history = <<<<"m", "{", "l", "=", "\"", "v", "\"", "}">>, <<"l", "n", "(", "m", "{", "l", "=", "\"", "v", "\"", "}", ")">>, <<"l", "n", "(", "l", "n", "(", "m", "{", "l", "=", "\"", "v", "\"", "}", ")", ")">>>>
    /\ vector = InstantVector(<<"a", "b", "s", "(", "l", "n", "(", "l", "n", "(", "m", "{", "l", "=", "\"", "v", "\"", "}", ")", ")", ")">>)

(***************************************************************************)
(* Ownership, determinism and independence of callers                      *)
(***************************************************************************)
Holds(c) == callers[c].expr.type # "Moved"

NoSharedBuffer ==
    /\ \A c \in Callers : Holds(c) => callers[c].expr.buf \in live
    /\ \A c \in Callers, d \in Callers :
           (c # d /\ Holds(c) /\ Holds(d)) => callers[c].expr.buf # callers[d].expr.buf

ConsumedAndFresh ==
    \A c \in Callers :
        callers'[c].log # callers[c].log =>
            LET old == callers[c].expr.buf
            IN  /\ old \notin live'
                /\ callers'[c].inputs[Len(callers'[c].inputs)].query = heap[old]
                /\ callers'[c].expr.type # "Moved" =>
                       /\ callers'[c].expr.buf \notin live
                       /\ callers'[c].expr.buf \in live'
                /\ \A d \in Callers \ {c} :
                       /\ callers'[d] = callers[d]
                       /\ Holds(d) => heap'[callers[d].expr.buf] = heap[callers[d].expr.buf]

\* C13: every function consumes its input and returns a new expression: after
\* a call the input is no longer available to the caller, no existing
\* expression's text is modified, and two expressions never share a buffer.
ConsumesInputReturnsNew == [](NoSharedBuffer) /\ [][ConsumedAndFresh]_vars

\* Both callers have called once and hold their results in different buffers.
ConsumesInputReturnsNewWitness ==
    /\ Len(callers["a"].log) = 1
    /\ Len(callers["b"].log) = 1
    /\ Holds("a") /\ Holds("b")
    /\ heap[callers["a"].expr.buf] = <<"a", "b", "s", "(", "m", "{", "l", "=", "\"", "v", "\"", "}", ")">>
    /\ heap[callers["b"].expr.buf] = <<"r", "a", "t", "e", "(", "m", "{", "l", "=", "\"", "v", "\"", "}", "[", "5", "m", "]", ")">>

RECURSIVE RunAlone(_, _)
RunAlone(v, log) ==
    IF log = <<>>
    THEN [vec |-> v, outcomes |-> <<>>]
    ELSE LET before == RunAlone(v, SubSeq(log, 1, Len(log) - 1))
             res    == Invoke(before.vec, log[Len(log)])
         IN  [vec |-> res.value, outcomes |-> Append(before.outcomes, res)]

\* C15: two callers that each build an expression by their own calls never
\* interact: under every interleaving each obtains what its own sequence of
\* calls gives when it runs alone.
IndependentCallers ==
    \A c \in Callers :
        LET alone == RunAlone(callers[c].start, callers[c].log)
        IN  /\ callers[c].expr.type = alone.vec.type
            /\ callers[c].outcomes = alone.outcomes
            /\ Holds(c) => heap[callers[c].expr.buf] = alone.vec.query

\* Each caller has made two calls and holds a vector.
IndependentCallersWitness ==
    /\ Len(callers["a"].log) = 2
    /\ Len(callers["b"].log) = 2
    /\ callers["a"].log[1].name = "round"
    /\ callers["b"].log[1].name = "rate"
    /\ Holds("a") /\ Holds("b")

(***************************************************************************)
(* Failed calls                                                            *)
(***************************************************************************)
FailedCallLeavesNothing ==
    ~result.ok =>
        /\ call.name \in {"holt_winters", "label_join", "label_replace"}
        /\ input # Moved
        /\ vector = Moved
        /\ DOMAIN result = {"ok", "error", "message"}
        /\ result.message # <<>>

\* C21: a failed call of holt_winters, label_join or label_replace still
\* consumes the input expression: the error carries only a message, the input
\* is not returned to the caller, and no further call, so no retry with
\* corrected arguments, is made on that expression value.
FailedCallConsumesInput == [](FailedCallLeavesNothing) /\ [][result.ok]_vars

\* label_join has failed on the result of an earlier call, and no call is
\* possible any more.
FailedCallConsumesInputWitness ==
    /\ call.name = "label_join"
    /\ call.strs[1] = <<"l">>
    /\ call.labels = <<>>
    /\ ~result.ok
    /\ Len(history) = 2
    /\ input.query = <<"a", "b", "s", "(", "m", "{", "l", "=", "\"", "v", "\"", "}", ")">>
    /\ vector = Moved
    /\ ~ENABLED Next

=============================================================================
